---------------------------- MODULE Spec2Model ----------------------------
(***************************************************************************)
(* Tactical battle engine of the 2D RPG demo: the Game scene switch, the   *)
(* overworld's persistent units, the Battle session (rosters, phase        *)
(* machine, cursor, cached reachable/target sets) and the deferred         *)
(* enemy-phase timer.  Presentation state (sprites, music, facing, zoom,   *)
(* the status message text) is not part of the model.                      *)
(***************************************************************************)
EXTENDS Integers, Sequences, FiniteSets, TLC

(* ---------------- config.py / class constants ---------------- *)
BATTLE_GRID_W == 8
BATTLE_GRID_H == 6

STATE_PLAYER_SELECT == 0
STATE_PLAYER_MOVE == 1
STATE_PLAYER_ATTACK == 3
STATE_ENEMY_TURN == 4
STATE_VICTORY == 5
STATE_DEFEAT == 6

SCENE_OVERWORLD == 0
SCENE_BATTLE == 1

(* Python's None: for a unit reference (an index into the friendly roster) *)
(* and for a position.                                                     *)
NoUnit == 0
NoPos == <<>>
NoBattle == [none |-> TRUE]

VARIABLES
    scene,          \* Game.scene
    battle,         \* Game.battle: NoBattle or the Battle object's fields
    ow_player,      \* Overworld.player
    ow_enemies,     \* Overworld.enemies
    timer_pending,  \* the pygame timer for USEREVENT+1 is armed
    coll,           \* index of the overworld enemy whose contact started the session
    forfeited,      \* the forfeit branch of handle_event ran in this session
    reported,       \* arguments of the last Game.end_battle call
    opening,        \* which scripted opening the input follows
    ip,             \* scripted events consumed so far
    free            \* unscripted events consumed so far

vars == <<scene, battle, ow_player, ow_enemies, timer_pending, coll, forfeited,
          reported, opening, ip, free>>

(* ---------------- entities.py ---------------- *)
Unit(name, x, y, hp, atk, movement) ==
    [name |-> name, x |-> x, y |-> y, hp |-> hp, max_hp |-> hp, atk |-> atk,
     movement |-> movement, has_acted |-> FALSE]

is_alive(u) == u.hp > 0

Abs(n) == IF n < 0 THEN -n ELSE n

distance_to(u, other) == Abs(u.x - other.x) + Abs(u.y - other.y)

(* getattr(unit, field, 1) *)
GetAttr(u, f, default) == IF f \in DOMAIN u THEN u[f] ELSE default

Max(a, b) == IF a > b THEN a ELSE b
Min(a, b) == IF a < b THEN a ELSE b

(* ---------------- Battle.__init__ ---------------- *)
BattleInit(player_unit, enemy_unit) ==
    [ player_units |->
        << Unit(player_unit.name, 1, BATTLE_GRID_H \div 2, player_unit.hp,
                player_unit.atk, 4) @@ [attack_range |-> 1],
           Unit("Knight", 1, (BATTLE_GRID_H \div 2) - 1, 25, 6, 3)
                @@ [attack_range |-> 1],
           Unit("Archer", 0, BATTLE_GRID_H \div 2, 15, 5, 4)
                @@ [attack_range |-> 3, min_range |-> 2],
           Unit("Mage", 0, (BATTLE_GRID_H \div 2) + 1, 12, 7, 3)
                @@ [attack_range |-> 2, min_range |-> 1] >>,
      enemy_units |->
        << Unit(enemy_unit.name, BATTLE_GRID_W - 2, BATTLE_GRID_H \div 2,
                enemy_unit.hp, enemy_unit.atk, 3)
                @@ [attack_range |-> 1, min_range |-> 1],
           Unit("Goblin", BATTLE_GRID_W - 2, (BATTLE_GRID_H \div 2) - 1, 8, 3, 3)
                @@ [attack_range |-> 1, min_range |-> 1],
           Unit("Goblin", BATTLE_GRID_W - 3, (BATTLE_GRID_H \div 2) + 1, 8, 3, 3)
                @@ [attack_range |-> 1, min_range |-> 1] >>,
      state |-> STATE_PLAYER_SELECT,
      selected_unit |-> NoUnit,
      cursor_x |-> BATTLE_GRID_W \div 2,
      cursor_y |-> BATTLE_GRID_H \div 2,
      valid_moves |-> {},
      valid_attacks |-> {},
      original_pos |-> NoPos ]

_in_bounds(x, y) == 0 <= x /\ x < BATTLE_GRID_W /\ 0 <= y /\ y < BATTLE_GRID_H

(* self.player_units + self.enemy_units, each entry tagged with the        *)
(* friendly roster index it has (0 for an enemy) so that the identity test *)
(* `u == self.selected_unit` can be made.                                  *)
AllUnits(b) ==
    [i \in 1..Len(b.player_units) |-> [u |-> b.player_units[i], pidx |-> i]]
    \o [i \in 1..Len(b.enemy_units) |-> [u |-> b.enemy_units[i], pidx |-> 0]]

(* ---------------- Battle._compute_valid_moves ---------------- *)
(* the four offsets tried in the order up, down, left, right *)
Directions_rev == << <<0, -1>>, <<0, 1>>, <<-1, 0>>, <<1, 0>> >>

Directions == << <<1, 0>>, <<-1, 0>>, <<0, 1>>, <<0, -1>> >>

(* can_stop_here testing the enemy roster only *)
can_stop_here_enemies(b, c) ==
    \A k \in 1..Len(b.enemy_units) :
        LET e == b.enemy_units[k] IN ~(e.x = c[1] /\ e.y = c[2] /\ is_alive(e))

(* lines 104-110: no living unit other than the selected one stands on c *)
can_stop_here(b, c) ==
    \A k \in 1..Len(AllUnits(b)) :
        LET e == AllUnits(b)[k] IN
        e.pidx = b.selected_unit
        \/ ~(e.u.x = c[1] /\ e.u.y = c[2] /\ is_alive(e.u))

(* the blocking test made against both rosters: allies block traversal *)
blocked_by_any(b, n) ==
    \E k \in 1..Len(AllUnits(b)) :
        LET e == AllUnits(b)[k] IN
        /\ e.pidx # b.selected_unit
        /\ e.u.x = n[1] /\ e.u.y = n[2] /\ is_alive(e.u)

(* lines 126-130: a living enemy stands on n *)
blocked(b, n) ==
    \E k \in 1..Len(b.enemy_units) :
        LET e == b.enemy_units[k] IN e.x = n[1] /\ e.y = n[2] /\ is_alive(e)

(* lines 118-136: the neighbour loop of one dequeued tile; s is the pair   *)
(* of the visited map and the queue.                                       *)
RECURSIVE Expand(_, _, _, _, _)
Expand(b, c, dist, k, s) ==
    IF k > Len(Directions) THEN s
    ELSE LET n == <<c[1] + Directions[k][1], c[2] + Directions[k][2]>> IN
         IF ~_in_bounds(n[1], n[2]) \/ n \in DOMAIN s.visited \/ blocked(b, n)
         THEN Expand(b, c, dist, k + 1, s)
         ELSE Expand(b, c, dist, k + 1,
                     [visited |-> s.visited @@ (n :> dist + 1),
                      q |-> Append(s.q, n)])

(* the loop taking the newest queue entry first (pop() for popleft()):    *)
(* a depth-first fill, which fixes a tile's distance on its first visit    *)
RECURSIVE BfsLoop_dfs(_, _, _, _)
BfsLoop_dfs(b, maxdist, s, valid) ==
    IF s.q = <<>> THEN valid
    ELSE LET c == s.q[Len(s.q)]
             dist == s.visited[c]
             valid2 == IF can_stop_here(b, c) THEN valid \cup {c} ELSE valid
             s1 == [visited |-> s.visited, q |-> SubSeq(s.q, 1, Len(s.q) - 1)]
         IN IF dist >= maxdist
            THEN BfsLoop_dfs(b, maxdist, s1, valid2)
            ELSE BfsLoop_dfs(b, maxdist, Expand(b, c, dist, 1, s1), valid2)

(* lines 99-136: the while loop over the queue *)
RECURSIVE BfsLoop(_, _, _, _)
BfsLoop(b, maxdist, s, valid) ==
    IF s.q = <<>> THEN valid
    ELSE LET c == Head(s.q)
             dist == s.visited[c]
             valid2 == IF can_stop_here(b, c) THEN valid \cup {c} ELSE valid
             s1 == [visited |-> s.visited, q |-> Tail(s.q)]
         IN IF dist >= maxdist
            THEN BfsLoop(b, maxdist, s1, valid2)
            ELSE BfsLoop(b, maxdist, Expand(b, c, dist, 1, s1), valid2)

(* _compute_valid_moves halting one step late (dist > movement) *)
_compute_valid_moves_far(b) ==
    IF b.selected_unit = NoUnit THEN {}
    ELSE LET su == b.player_units[b.selected_unit]
             start == <<su.x, su.y>>
         IN BfsLoop(b, su.movement + 1,
                    [visited |-> (start :> 0), q |-> <<start>>], {})

_compute_valid_moves(b) ==
    IF b.selected_unit = NoUnit THEN {}
    ELSE LET su == b.player_units[b.selected_unit]
             start == <<su.x, su.y>>
         IN BfsLoop(b, su.movement,
                    [visited |-> (start :> 0), q |-> <<start>>], {})

(* ---------------- Battle._compute_valid_attacks ---------------- *)
(* _compute_valid_attacks without the lower limit min_range *)
_compute_valid_attacks_nomin(b) ==
    IF b.selected_unit = NoUnit THEN {}
    ELSE LET su == b.player_units[b.selected_unit]
             attack_range == GetAttr(su, "attack_range", 1)
         IN { <<b.enemy_units[k].x, b.enemy_units[k].y>> :
                k \in { j \in 1..Len(b.enemy_units) :
                          /\ is_alive(b.enemy_units[j])
                          /\ distance_to(su, b.enemy_units[j]) <= attack_range } }

_compute_valid_attacks(b) ==
    IF b.selected_unit = NoUnit THEN {}
    ELSE LET su == b.player_units[b.selected_unit]
             attack_range == GetAttr(su, "attack_range", 1)
             min_range == GetAttr(su, "min_range", 1)
         IN { <<b.enemy_units[k].x, b.enemy_units[k].y>> :
                k \in { j \in 1..Len(b.enemy_units) :
                          /\ is_alive(b.enemy_units[j])
                          /\ min_range <= distance_to(su, b.enemy_units[j])
                          /\ distance_to(su, b.enemy_units[j]) <= attack_range } }

(* first index of a sequence satisfying a test given as a set of indices, 0 if none *)
FirstIn(S) == IF S = {} THEN 0 ELSE CHOOSE i \in S : \A j \in S : i <= j

(* ---------------- Battle._get_player_unit_at / _enemy_at ---------------- *)
_get_player_unit_at(b, x, y) ==
    FirstIn({ i \in 1..Len(b.player_units) :
                LET p == b.player_units[i] IN
                p.x = x /\ p.y = y /\ is_alive(p) /\ ~p.has_acted })

(* _enemy_at without the liveness test *)
_enemy_at_any(b, x, y) ==
    FirstIn({ i \in 1..Len(b.enemy_units) :
                LET e == b.enemy_units[i] IN e.x = x /\ e.y = y })

_enemy_at(b, x, y) ==
    FirstIn({ i \in 1..Len(b.enemy_units) :
                LET e == b.enemy_units[i] IN e.x = x /\ e.y = y /\ is_alive(e) })


(* ---------------- Battle._attack ---------------- *)
(* _attack without the clamp at 0 *)
_attack_unclamped(b, attacker, defender) ==
    [b EXCEPT !.enemy_units[defender].hp = @ - b.player_units[attacker].atk]

(* attacker: index into the friendly roster, defender: into the enemy roster *)
_attack(b, attacker, defender) ==
    LET hp1 == b.enemy_units[defender].hp - b.player_units[attacker].atk
    IN [b EXCEPT !.enemy_units[defender].hp = IF hp1 <= 0 THEN 0 ELSE hp1]

(* ---------------- Battle._after_player_action ---------------- *)
(* _after_player_action declaring victory as soon as some enemy is dead *)
_after_player_action_any(b) ==
    IF \E k \in 1..Len(b.enemy_units) : ~is_alive(b.enemy_units[k])
    THEN [b |-> [b EXCEPT !.state = STATE_VICTORY], set_timer |-> FALSE]
    ELSE IF \A i \in 1..Len(b.player_units) :
                b.player_units[i].has_acted \/ ~is_alive(b.player_units[i])
    THEN [b |-> [b EXCEPT !.state = STATE_ENEMY_TURN,
                          !.selected_unit = NoUnit,
                          !.valid_attacks = {}],
          set_timer |-> TRUE]
    ELSE [b |-> [b EXCEPT !.state = STATE_PLAYER_SELECT,
                          !.selected_unit = NoUnit,
                          !.valid_attacks = {}],
          set_timer |-> FALSE]

(* The result pairs the session with whether pygame.time.set_timer(.., 800) ran. *)
_after_player_action(b) ==
    IF ~\E k \in 1..Len(b.enemy_units) : is_alive(b.enemy_units[k])
    THEN [b |-> [b EXCEPT !.state = STATE_VICTORY], set_timer |-> FALSE]
    ELSE IF \A i \in 1..Len(b.player_units) :
                b.player_units[i].has_acted \/ ~is_alive(b.player_units[i])
    THEN [b |-> [b EXCEPT !.state = STATE_ENEMY_TURN,
                          !.selected_unit = NoUnit,
                          !.valid_attacks = {}],
          set_timer |-> TRUE]
    ELSE [b |-> [b EXCEPT !.state = STATE_PLAYER_SELECT,
                          !.selected_unit = NoUnit,
                          !.valid_attacks = {}],
          set_timer |-> FALSE]

(* ---------------- Battle.enemy_turn ---------------- *)
(* Occupied testing the friendly roster only *)
Occupied_friendly(b, x, y) ==
    \E i \in 1..Len(b.player_units) :
        LET u == b.player_units[i] IN u.x = x /\ u.y = y /\ is_alive(u)

(* lines 322 / 333: some living unit of either roster stands on (x, y) *)
Occupied(b, x, y) ==
    \E k \in 1..Len(AllUnits(b)) :
        LET u == AllUnits(b)[k].u IN u.x = x /\ u.y = y /\ is_alive(u)

(* min() keeping the last of the nearest living friendly units *)
Target_last(b, e) ==
    LET living == { i \in 1..Len(b.player_units) : is_alive(b.player_units[i]) }
        d(i) == distance_to(e, b.player_units[i])
        nearest == { i \in living : \A j \in living : d(i) <= d(j) }
    IN IF nearest = {} THEN 0 ELSE CHOOSE i \in nearest : \A j \in nearest : j <= i

(* line 304: min() returns the first living friendly unit of least distance *)
Target(b, e) ==
    LET living == { i \in 1..Len(b.player_units) : is_alive(b.player_units[i]) }
        d(i) == distance_to(e, b.player_units[i])
    IN FirstIn({ i \in living : \A j \in living : d(i) <= d(j) })

Sign(n) == IF n > 0 THEN 1 ELSE IF n < 0 THEN -1 ELSE 0

(* first tile of a candidate list that is in the grid and unoccupied, NoPos if none *)
RECURSIVE FirstFree(_, _, _)
FirstFree(b, cands, k) ==
    IF k > Len(cands) THEN NoPos
    ELSE IF /\ 0 <= cands[k][1] /\ cands[k][1] < BATTLE_GRID_W
            /\ 0 <= cands[k][2] /\ cands[k][2] < BATTLE_GRID_H
            /\ ~Occupied(b, cands[k][1], cands[k][2])
         THEN cands[k]
         ELSE FirstFree(b, cands, k + 1)

(* the enemy's action without the clamp at 0 of lines 311-312 *)
EnemyAct_unclamped(b, k) ==
    LET e == b.enemy_units[k]
        t == Target(b, e)
        target == b.player_units[t]
    IN IF distance_to(e, target) = 1
       THEN LET hp1 == target.hp - e.atk
            IN [b EXCEPT !.player_units[t].hp = hp1]
       ELSE LET dx == Sign(target.x - e.x)
                dy == Sign(target.y - e.y)
                pref == FirstFree(b, << <<e.x + dx, e.y + dy>>, <<e.x + dx, e.y>>,
                                        <<e.x, e.y + dy>> >>, 1)
                fall == FirstFree(b, [d \in 1..Len(Directions) |->
                                        <<e.x + Directions[d][1],
                                          e.y + Directions[d][2]>>], 1)
                dest == IF pref # NoPos THEN pref ELSE fall
            IN IF dest = NoPos THEN b
               ELSE [b EXCEPT !.enemy_units[k].x = dest[1],
                              !.enemy_units[k].y = dest[2]]

(* lines 306-336: the action of the living enemy k against its target *)
EnemyAct(b, k) ==
    LET e == b.enemy_units[k]
        t == Target(b, e)
        target == b.player_units[t]
    IN IF distance_to(e, target) = 1
       THEN LET hp1 == target.hp - e.atk
            IN [b EXCEPT !.player_units[t].hp = IF hp1 <= 0 THEN 0 ELSE hp1]
       ELSE LET dx == Sign(target.x - e.x)
                dy == Sign(target.y - e.y)
                pref == FirstFree(b, << <<e.x + dx, e.y + dy>>, <<e.x + dx, e.y>>,
                                        <<e.x, e.y + dy>> >>, 1)
                fall == FirstFree(b, [d \in 1..Len(Directions) |->
                                        <<e.x + Directions[d][1],
                                          e.y + Directions[d][2]>>], 1)
                dest == IF pref # NoPos THEN pref ELSE fall
            IN IF dest = NoPos THEN b
               ELSE [b EXCEPT !.enemy_units[k].x = dest[1],
                              !.enemy_units[k].y = dest[2]]

(* the loop without the liveness test of lines 295-296: dead enemies act *)
RECURSIVE EnemyLoop_dead(_, _)
EnemyLoop_dead(b, k) ==
    IF k > Len(b.enemy_units) THEN [b |-> b, returned |-> FALSE]
    ELSE IF ~\E i \in 1..Len(b.player_units) : is_alive(b.player_units[i])
    THEN [b |-> [b EXCEPT !.state = STATE_DEFEAT], returned |-> TRUE]
    ELSE EnemyLoop_dead(EnemyAct(b, k), k + 1)

(* lines 294-336: the loop over the enemy roster; returned = the early return *)
RECURSIVE EnemyLoop(_, _)
EnemyLoop(b, k) ==
    IF k > Len(b.enemy_units) THEN [b |-> b, returned |-> FALSE]
    ELSE IF ~is_alive(b.enemy_units[k]) THEN EnemyLoop(b, k + 1)
    ELSE IF ~\E i \in 1..Len(b.player_units) : is_alive(b.player_units[i])
    THEN [b |-> [b EXCEPT !.state = STATE_DEFEAT], returned |-> TRUE]
    ELSE EnemyLoop(EnemyAct(b, k), k + 1)

(* the end of enemy_turn without the defeat test of lines 338-341 *)
EnemyTurnEnd_reset(b) ==
    LET reset == [i \in 1..Len(b.player_units) |->
                     [b.player_units[i] EXCEPT !.has_acted = FALSE]]
        first == FirstIn({ i \in 1..Len(reset) :
                             is_alive(reset[i]) /\ ~reset[i].has_acted })
    IN [b EXCEPT !.player_units = reset,
                 !.state = STATE_PLAYER_SELECT,
                 !.cursor_x = IF first # 0 THEN reset[first].x ELSE @,
                 !.cursor_y = IF first # 0 THEN reset[first].y ELSE @]

(* lines 338-353 *)
EnemyTurnEnd(b) ==
    IF ~\E i \in 1..Len(b.player_units) : is_alive(b.player_units[i])
    THEN [b EXCEPT !.state = STATE_DEFEAT]
    ELSE LET reset == [i \in 1..Len(b.player_units) |->
                          [b.player_units[i] EXCEPT !.has_acted = FALSE]]
             first == FirstIn({ i \in 1..Len(reset) :
                                  is_alive(reset[i]) /\ ~reset[i].has_acted })
         IN [b EXCEPT !.player_units = reset,
                      !.state = STATE_PLAYER_SELECT,
                      !.cursor_x = IF first # 0 THEN reset[first].x ELSE @,
                      !.cursor_y = IF first # 0 THEN reset[first].y ELSE @]

(* the loop with every enemy acting on the board b0 of the start of the    *)
(* phase; its move and its damage are carried over to the board b          *)
RECURSIVE SnapshotLoop(_, _, _)
SnapshotLoop(b0, b, k) ==
    IF k > Len(b0.enemy_units) THEN [b |-> b, returned |-> FALSE]
    ELSE IF ~is_alive(b0.enemy_units[k]) THEN SnapshotLoop(b0, b, k + 1)
    ELSE IF ~\E i \in 1..Len(b0.player_units) : is_alive(b0.player_units[i])
    THEN [b |-> [b EXCEPT !.state = STATE_DEFEAT], returned |-> TRUE]
    ELSE LET a == EnemyAct(b0, k)
             hit(i) == b0.player_units[i].hp - a.player_units[i].hp
         IN SnapshotLoop(b0,
                [b EXCEPT !.enemy_units[k] = a.enemy_units[k],
                          !.player_units =
                              [i \in 1..Len(b.player_units) |->
                                  [b.player_units[i] EXCEPT
                                      !.hp = IF @ - hit(i) <= 0 THEN 0
                                             ELSE @ - hit(i)]]],
                k + 1)

(* enemy_turn with every enemy acting on the board of the start of the phase *)
enemy_turn_snapshot(b) ==
    LET r == SnapshotLoop(b, b, 1)
    IN IF r.returned THEN r.b ELSE EnemyTurnEnd(r.b)

enemy_turn(b) ==
    LET r == EnemyLoop(b, 1)
    IN IF r.returned THEN r.b ELSE EnemyTurnEnd(r.b)

(* ---------------- Game.end_battle ---------------- *)
(* lines 62-66: the first living overworld enemy gets hp 0 *)
RemoveEnemy(enemies) ==
    LET k == FirstIn({ i \in 1..Len(enemies) : is_alive(enemies[i]) })
    IN IF k = 0 THEN enemies ELSE [enemies EXCEPT ![k].hp = 0]

(* end_battle restoring the hero to full health instead of writing back *)
end_battle_restore(player_won, player_unit_copy, enemies, player) ==
    [enemies |-> IF player_won THEN RemoveEnemy(enemies) ELSE enemies,
     player |-> [player EXCEPT !.hp = player.max_hp]]

(* lines 62-67: the overworld's enemies and player after the call *)
end_battle(player_won, player_unit_copy, enemies, player) ==
    [enemies |-> IF player_won THEN RemoveEnemy(enemies) ELSE enemies,
     player |-> [player EXCEPT !.hp = player_unit_copy.hp]]

(* ---------------- Battle.handle_event, branch by branch ---------------- *)
(* lines 171-188: K_ESCAPE in a non-terminal state *)
IsCancel(b) ==
    /\ b.state \in {STATE_PLAYER_MOVE, STATE_PLAYER_ATTACK}
    /\ b.selected_unit # NoUnit
    /\ b.original_pos # NoPos

(* the cancel branches without the restore of lines 175 / 181 *)
HandleEscape_norestore(b) ==
    IF IsCancel(b)
    THEN [b EXCEPT !.state = STATE_PLAYER_SELECT, !.selected_unit = NoUnit]
    ELSE [b EXCEPT !.state = STATE_DEFEAT]

HandleEscape(b) ==
    IF IsCancel(b)
    THEN [b EXCEPT !.player_units[b.selected_unit].x = b.original_pos[1],
                   !.player_units[b.selected_unit].y = b.original_pos[2],
                   !.state = STATE_PLAYER_SELECT,
                   !.selected_unit = NoUnit]
    ELSE [b EXCEPT !.state = STATE_DEFEAT]

(* the cursor keys without the max / min clamps *)
HandleCursor_unclamped(b, key) ==
    CASE key = "L" -> [b EXCEPT !.cursor_x = b.cursor_x - 1]
      [] key = "R" -> [b EXCEPT !.cursor_x = b.cursor_x + 1]
      [] key = "U" -> [b EXCEPT !.cursor_y = b.cursor_y - 1]
      [] key = "D" -> [b EXCEPT !.cursor_y = b.cursor_y + 1]

(* lines 192-199 *)
HandleCursor(b, key) ==
    CASE key = "L" -> [b EXCEPT !.cursor_x = Max(0, b.cursor_x - 1)]
      [] key = "R" -> [b EXCEPT !.cursor_x = Min(BATTLE_GRID_W - 1, b.cursor_x + 1)]
      [] key = "U" -> [b EXCEPT !.cursor_y = Max(0, b.cursor_y - 1)]
      [] key = "D" -> [b EXCEPT !.cursor_y = Min(BATTLE_GRID_H - 1, b.cursor_y + 1)]

(* lines 202-212: K_RETURN in STATE_PLAYER_SELECT *)
HandleSelect(b) ==
    LET unit == _get_player_unit_at(b, b.cursor_x, b.cursor_y)
    IN IF unit # NoUnit
       THEN LET b1 == [b EXCEPT !.selected_unit = unit,
                                !.original_pos = <<b.player_units[unit].x,
                                                   b.player_units[unit].y>>,
                                !.state = STATE_PLAYER_MOVE]
            IN [b1 EXCEPT !.valid_moves = _compute_valid_moves(b1)]
       ELSE b

(* the move confirm without the membership test of line 216 *)
HandleMove_anywhere(b) ==
    LET b1 == [b EXCEPT !.player_units[b.selected_unit].x = b.cursor_x,
                        !.player_units[b.selected_unit].y = b.cursor_y,
                        !.state = STATE_PLAYER_ATTACK]
    IN [b1 EXCEPT !.valid_attacks = _compute_valid_attacks(b1)]

(* lines 214-229: K_RETURN in STATE_PLAYER_MOVE *)
HandleMove(b) ==
    IF <<b.cursor_x, b.cursor_y>> \in b.valid_moves
    THEN LET b1 == [b EXCEPT !.player_units[b.selected_unit].x = b.cursor_x,
                             !.player_units[b.selected_unit].y = b.cursor_y,
                             !.state = STATE_PLAYER_ATTACK]
         IN [b1 EXCEPT !.valid_attacks = _compute_valid_attacks(b1)]
    ELSE b

(* the attack confirm going back to PLAYER_SELECT without the round test   *)
(* of _after_player_action                                                 *)
HandleAttack_select(b) ==
    LET enemy == _enemy_at(b, b.cursor_x, b.cursor_y)
    IN IF enemy # 0 /\ <<b.cursor_x, b.cursor_y>> \in b.valid_attacks
       THEN LET b1 == _attack(b, b.selected_unit, enemy)
            IN [b |-> [b1 EXCEPT !.player_units[b.selected_unit].has_acted = TRUE,
                                 !.state = STATE_PLAYER_SELECT,
                                 !.selected_unit = NoUnit,
                                 !.valid_attacks = {}],
                set_timer |-> FALSE]
       ELSE [b |-> b, set_timer |-> FALSE]

(* lines 231-242: K_RETURN in STATE_PLAYER_ATTACK *)
HandleAttack(b) ==
    LET enemy == _enemy_at(b, b.cursor_x, b.cursor_y)
    IN IF enemy # 0 /\ <<b.cursor_x, b.cursor_y>> \in b.valid_attacks
       THEN LET b1 == _attack(b, b.selected_unit, enemy)
                b2 == [b1 EXCEPT !.player_units[b.selected_unit].has_acted = TRUE]
            IN _after_player_action(b2)
       ELSE [b |-> b, set_timer |-> FALSE]

(* a skip that runs the enemy phase at once instead of arming the timer *)
HandleSkip_sync(b) ==
    LET r == _after_player_action(
                 [b EXCEPT !.player_units[b.selected_unit].has_acted = TRUE])
    IN IF r.set_timer THEN [b |-> enemy_turn(r.b), set_timer |-> FALSE] ELSE r

(* lines 245-249: K_SPACE in STATE_PLAYER_ATTACK *)
HandleSkip(b) ==
    _after_player_action(
        [b EXCEPT !.player_units[b.selected_unit].has_acted = TRUE])

(* ---------------- the event source: pygame.event.get() ---------------- *)
(* Input is one of the scripted openings (a fixed event sequence played    *)
(* from the start of the game) followed by at most MaxFree arbitrary       *)
(* events.  L R U D E S X are the keys left, right, up, down, return,      *)
(* space, escape; T is the USEREVENT+1 timer event; C1 and C2 are the      *)
(* overworld key presses that make contact with overworld enemy 1 or 2.    *)
MaxFree == 6

(* no opening: the input is free from the first event *)
EmptyOpening == <<>>

(* Contact with the Dragon while the Goblin lives, an aggressive game to   *)
(* VICTORY, exit with the hero wounded, and a second session against the   *)
(* Dragon that starts from the hero's remaining hp and is played for two   *)
(* rounds.                                                                 *)
OpeningVictory ==
    << "C2", "L", "L", "L", "E", "R", "R", "R", "D", "E", "R", "E", "L",
       "L", "L", "L", "U", "U", "E", "R", "R", "R", "E", "S", "L", "L",
       "L", "L", "D", "E", "R", "R", "D", "E", "R", "R", "R", "E", "L",
       "L", "L", "L", "L", "E", "R", "R", "U", "E", "S", "T", "E", "R",
       "U", "E", "U", "E", "L", "E", "E", "R", "E", "L", "L", "L", "D",
       "D", "E", "E", "R", "R", "R", "E", "L", "L", "L", "U", "E", "R",
       "D", "E", "R", "R", "E", "T", "E", "E", "D", "E", "L", "U", "U",
       "E", "D", "D", "E", "R", "E", "E", "C2", "L", "L", "L", "E", "R",
       "R", "R", "D", "E", "R", "E", "L", "L", "L", "L", "U", "U", "E",
       "R", "R", "R", "E", "S", "L", "L", "L", "L", "D", "E", "R", "R",
       "D", "E", "R", "R", "R", "E", "L", "L", "L", "L", "L", "E", "R",
       "R", "U", "E", "S", "T", "E", "R", "U", "E", "U", "E", "L", "E",
       "E", "R", "E", "L", "L", "L", "D", "D", "E", "E", "R", "R", "R",
       "E", "L", "L", "L", "U", "E", "R", "D", "E", "R", "R", "E", "T",
       "L", "L", "L" >>

(* Contact with the Dragon, the friendly units walk up to it and skip      *)
(* until the enemy phase kills the last of them (DEFEAT), exit, and a      *)
(* second session started with the hero's carried-over hp.                 *)
OpeningDefeat ==
    << "C2", "L", "L", "L", "E", "R", "R", "R", "R", "E", "S", "L", "L",
       "L", "L", "U", "E", "R", "R", "D", "E", "S", "L", "L", "L", "E",
       "R", "R", "R", "R", "E", "S", "L", "L", "L", "L", "D", "E", "R",
       "R", "U", "E", "S", "T", "E", "E", "S", "L", "L", "E", "E", "S",
       "R", "E", "E", "S", "L", "L", "E", "R", "R", "U", "E", "S", "T",
       "E", "R", "R", "E", "S", "L", "E", "R", "R", "D", "E", "S", "L",
       "L", "U", "U", "E", "D", "E", "S", "T", "E", "E", "S", "R", "D",
       "E", "E", "S", "L", "L", "U", "E", "E", "S", "T", "E", "E", "S",
       "R", "D", "E", "E", "S", "L", "L", "U", "E", "E", "S", "T", "E",
       "E", "S", "L", "L", "U", "E", "R", "E", "S", "T", "E", "E", "S",
       "L", "U", "E", "E", "S", "T", "E", "C1", "L", "L", "L", "E", "U",
       "E", "R", "R", "E" >>

(* Contact with the Goblin, all four units pass, escape while the          *)
(* enemy-phase timer is armed, exit, a second session, and the timer event *)
(* of the first session arriving in it.                                    *)
OpeningForfeit ==
    << "C1", "L", "L", "L", "E", "E", "S", "U", "E", "E", "S", "L", "D",
       "E", "E", "S", "D", "E", "E", "S", "X", "E", "C1", "L", "L", "L",
       "E", "R", "R", "R", "R", "E", "T", "E", "E", "R", "E" >>

(* Contact with the Goblin and four rounds in which every unit passes, so  *)
(* that the enemies close in on the friendly starting tiles.               *)
OpeningPass ==
    << "C1", "L", "L", "L", "E", "E", "S", "U", "E", "E", "S", "L", "D",
       "E", "E", "S", "D", "E", "E", "S", "T", "E", "E", "S", "U", "E",
       "E", "S", "L", "D", "E", "E", "S", "D", "E", "E", "S", "T", "E",
       "E", "S", "U", "E", "E", "S", "L", "D", "E", "E", "S", "D", "E",
       "E", "S", "T", "E", "E", "S", "U", "E", "E", "S", "L", "D", "E",
       "E", "S", "D", "E", "E", "S", "T" >>

Openings == << EmptyOpening, OpeningVictory, OpeningDefeat, OpeningForfeit,
               OpeningPass >>

(* the next event of the opening, while the input has not left it *)
Scripted(ev) ==
    free = 0 /\ ip < Len(Openings[opening]) /\ Openings[opening][ip + 1] = ev

Env(ev) ==
    /\ Scripted(ev) \/ free < MaxFree
    /\ ip' = IF Scripted(ev) THEN ip + 1 ELSE ip
    /\ free' = IF Scripted(ev) THEN free ELSE free + 1
    /\ opening' = opening

NoReport == [none |-> TRUE]

(* ---------------- Overworld.__init__ / Game.__init__ ---------------- *)
Init ==
    /\ scene = SCENE_OVERWORLD
    /\ battle = NoBattle
    /\ ow_player = Unit("Hero", 5, 5, 20, 5, 4)
    /\ ow_enemies = << Unit("Goblin", 10, 8, 10, 3, 0),
                       Unit("Dragon", 15, 10, 18, 7, 0) >>
    /\ timer_pending = FALSE
    /\ coll = 0
    /\ forfeited = FALSE
    /\ reported = NoReport
    /\ opening \in 1..Len(Openings)
    /\ ip = 0
    /\ free = 0

(* Overworld.handle_event lines 104-119 with Game.start_battle: the hero   *)
(* steps onto, or presses space next to, the living overworld enemy i.     *)
StartBattle(i) ==
    /\ scene = SCENE_OVERWORLD
    /\ is_alive(ow_enemies[i])
    /\ Env(IF i = 1 THEN "C1" ELSE "C2")
    /\ battle' = BattleInit(ow_player, ow_enemies[i])
    /\ scene' = SCENE_BATTLE
    /\ coll' = i
    /\ forfeited' = FALSE
    /\ UNCHANGED <<ow_player, ow_enemies, timer_pending, reported>>

InBattle == scene = SCENE_BATTLE /\ battle # NoBattle

Terminal(b) == b.state \in {STATE_VICTORY, STATE_DEFEAT}

(* handle_event lines 165-168 with Game.end_battle *)
ExitBattle ==
    /\ InBattle /\ Terminal(battle)
    /\ Env("E")
    /\ LET player_won == battle.state = STATE_VICTORY
           player_unit_copy == battle.player_units[1]
           r == end_battle(player_won, player_unit_copy, ow_enemies, ow_player)
       IN /\ ow_enemies' = r.enemies
          /\ ow_player' = r.player
          /\ reported' = [won |-> player_won, hp |-> player_unit_copy.hp]
    /\ scene' = SCENE_OVERWORLD
    /\ battle' = NoBattle
    /\ coll' = 0
    /\ forfeited' = FALSE
    /\ UNCHANGED timer_pending

(* the session using the overworld's hero object as its lead unit instead *)
(* of the copy made in Battle.__init__ line 38                            *)
BattleFrame_aliased ==
    /\ UNCHANGED <<scene, ow_enemies, coll, reported>>
    /\ ow_player' = IF battle' = NoBattle THEN ow_player
                    ELSE [ow_player EXCEPT !.hp = battle'.player_units[1].hp,
                                           !.x = battle'.player_units[1].x,
                                           !.y = battle'.player_units[1].y]

(* the units of the session are copies: a step of the session leaves the   *)
(* overworld and the scene alone                                           *)
BattleFrame == UNCHANGED <<scene, ow_player, ow_enemies, coll, reported>>

Escape ==
    /\ InBattle /\ ~Terminal(battle)
    /\ Env("X")
    /\ battle' = HandleEscape(battle)
    /\ forfeited' = (forfeited \/ ~IsCancel(battle))
    /\ UNCHANGED timer_pending
    /\ BattleFrame

CursorKey(key) ==
    /\ InBattle
    /\ battle.state \in {STATE_PLAYER_SELECT, STATE_PLAYER_MOVE, STATE_PLAYER_ATTACK}
    /\ Env(key)
    /\ battle' = HandleCursor(battle, key)
    /\ UNCHANGED <<timer_pending, forfeited>>
    /\ BattleFrame

ConfirmSelect ==
    /\ InBattle /\ battle.state = STATE_PLAYER_SELECT
    /\ Env("E")
    /\ battle' = HandleSelect(battle)
    /\ UNCHANGED <<timer_pending, forfeited>>
    /\ BattleFrame

ConfirmMove ==
    /\ InBattle /\ battle.state = STATE_PLAYER_MOVE
    /\ Env("E")
    /\ battle' = HandleMove(battle)
    /\ UNCHANGED <<timer_pending, forfeited>>
    /\ BattleFrame

ConfirmAttack ==
    /\ InBattle /\ battle.state = STATE_PLAYER_ATTACK
    /\ Env("E")
    /\ LET r == HandleAttack(battle)
       IN /\ battle' = r.b
          /\ timer_pending' = (timer_pending \/ r.set_timer)
    /\ UNCHANGED forfeited
    /\ BattleFrame

SkipAttack ==
    /\ InBattle /\ battle.state = STATE_PLAYER_ATTACK
    /\ Env("S")
    /\ LET r == HandleSkip(battle)
       IN /\ battle' = r.b
          /\ timer_pending' = (timer_pending \/ r.set_timer)
    /\ UNCHANGED forfeited
    /\ BattleFrame

(* a key the handler has no branch for in the current phase *)
IgnoredKey(key) ==
    /\ InBattle
    /\ \/ Terminal(battle) /\ key # "E"
       \/ battle.state = STATE_ENEMY_TURN /\ key # "X"
       \/ battle.state \in {STATE_PLAYER_SELECT, STATE_PLAYER_MOVE} /\ key = "S"
    /\ Env(key)
    /\ UNCHANGED <<battle, timer_pending, forfeited>>
    /\ BattleFrame

(* Game.main_loop lines 84-87 *)
TimerEvent ==
    /\ timer_pending
    /\ Env("T")
    /\ battle' = IF InBattle THEN enemy_turn(battle) ELSE battle
    /\ timer_pending' = FALSE
    /\ UNCHANGED forfeited
    /\ BattleFrame

Keys == {"L", "R", "U", "D", "E", "S", "X"}

Next ==
    \/ \E i \in 1..2 : StartBattle(i)
    \/ ExitBattle
    \/ Escape
    \/ \E key \in {"L", "R", "U", "D"} : CursorKey(key)
    \/ ConfirmSelect
    \/ ConfirmMove
    \/ ConfirmAttack
    \/ SkipAttack
    \/ \E key \in Keys : IgnoredKey(key)
    \/ TimerEvent

Spec == Init /\ [][Next]_vars

(* ---------------- boards for the reachability solver ---------------- *)
(* A session as Battle.__init__ lays it out after contact with overworld   *)
(* enemy i, in which every unit other than the lead friendly unit and the  *)
(* contacted enemy is either alive or already defeated (hp 0; a defeated   *)
(* unit stays in its roster).  dead is the set of AllUnits indices of the  *)
(* defeated units.                                                         *)
Board(i, dead) ==
    LET b == BattleInit(ow_player, ow_enemies[i])
        np == Len(b.player_units)
    IN [b EXCEPT
          !.player_units = [j \in 1..np |->
                IF j \in dead THEN [b.player_units[j] EXCEPT !.hp = 0]
                ELSE b.player_units[j]],
          !.enemy_units = [k \in 1..Len(b.enemy_units) |->
                IF (np + k) \in dead THEN [b.enemy_units[k] EXCEPT !.hp = 0]
                ELSE b.enemy_units[k]]]

InitReach ==
    /\ scene = SCENE_BATTLE
    /\ ow_player = Unit("Hero", 5, 5, 20, 5, 4)
    /\ ow_enemies = << Unit("Goblin", 10, 8, 10, 3, 0),
                       Unit("Dragon", 15, 10, 18, 7, 0) >>
    /\ coll \in 1..2
    /\ \E dead \in SUBSET {2, 3, 4, 6, 7} : battle = Board(coll, dead)
    /\ timer_pending = FALSE
    /\ forfeited = FALSE
    /\ reported = NoReport
    /\ opening = 1
    /\ ip = 0
    /\ free = 0

(* the cursor, selection and cancel steps of handle_event on those boards *)
NextReach ==
    \/ \E key \in {"L", "R", "U", "D"} : CursorKey(key)
    \/ ConfirmSelect
    \/ Escape

SpecReach == InitReach /\ [][NextReach]_vars


(* ======================= properties ======================= *)
Friendly == battle.player_units
Enemy == battle.enemy_units
Pos(u) == <<u.x, u.y>>
SomeFriendlyAlive == \E i \in 1..Len(Friendly) : is_alive(Friendly[i])
SomeEnemyAlive == \E k \in 1..Len(Enemy) : is_alive(Enemy[k])
(* the session as Battle.__init__ built it *)
SessionStart == BattleInit([ow_player EXCEPT !.hp = Friendly[1].max_hp],
                           ow_enemies[coll])
(* a step inside one session *)
SameSession == InBattle /\ scene' = SCENE_BATTLE /\ battle' # NoBattle

(* C1: in every reachable state of a battle session no two living units,  *)
(* of either roster, stand on the same tile.                               *)
C1_NoSharedTile ==
    InBattle =>
        \A k, l \in 1..Len(AllUnits(battle)) :
            LET u == AllUnits(battle)[k].u
                v == AllUnits(battle)[l].u
            IN (k < l /\ is_alive(u) /\ is_alive(v)) => Pos(u) # Pos(v)

(* a friendly unit has been moved off its tile and stands next to a living *)
(* enemy that has itself moved in an enemy phase                           *)
C1_Witness ==
    /\ InBattle
    /\ battle.state = STATE_PLAYER_ATTACK
    /\ Pos(Friendly[battle.selected_unit]) # battle.original_pos
    /\ \E k \in 1..Len(Enemy) :
          /\ is_alive(Enemy[k])
          /\ Pos(Enemy[k]) # Pos(SessionStart.enemy_units[k])
          /\ distance_to(Enemy[k], Friendly[battle.selected_unit]) = 1

(* C2: VICTORY and DEFEAT are terminal: once the phase is VICTORY or      *)
(* DEFEAT no event changes the phase to a non-terminal one or changes a    *)
(* unit's position, hp or acted flag; only the exit of the session can     *)
(* follow.                                                                 *)
C2_TerminalIsFinal ==
    [][(InBattle /\ Terminal(battle)) =>
          \/ scene' = SCENE_OVERWORLD /\ battle' = NoBattle
          \/ /\ SameSession
             /\ Terminal(battle')
             /\ battle'.player_units = battle.player_units
             /\ battle'.enemy_units = battle.enemy_units]_vars

(* C3: on exit with victory the overworld enemy whose hp is forced to 0   *)
(* is the one whose contact started the session and no other overworld     *)
(* enemy changes; on exit with defeat no overworld enemy changes.          *)
C3_RemovedIsDefeated ==
    [][(InBattle /\ scene' = SCENE_OVERWORLD) =>
          ow_enemies' = IF battle.state = STATE_VICTORY
                        THEN [ow_enemies EXCEPT ![coll].hp = 0]
                        ELSE ow_enemies]_vars

(* C4: every unit of both rosters has 0 <= hp <= max_hp and is alive      *)
(* exactly when hp > 0 (hp = 0 iff not alive), the lead friendly unit      *)
(* seeded from the overworld hero's hp included.                           *)
C4_HpRange ==
    InBattle =>
        \A k \in 1..Len(AllUnits(battle)) :
            LET u == AllUnits(battle)[k].u
            IN /\ 0 <= u.hp /\ u.hp <= u.max_hp
               /\ is_alive(u) <=> u.hp > 0
               /\ u.hp = 0 <=> ~is_alive(u)

(* a session whose lead unit was seeded with a carried-over hp below the   *)
(* hero's initial 20, in which a friendly unit is wounded and an enemy has *)
(* been killed                                                             *)
C4_Witness ==
    /\ InBattle
    /\ Friendly[1].max_hp < ow_player.max_hp
    /\ Friendly[1].max_hp = ow_player.hp
    /\ \E i \in 1..Len(Friendly) : 0 < Friendly[i].hp /\ Friendly[i].hp < Friendly[i].max_hp
    /\ \E k \in 1..Len(Enemy) : Enemy[k].hp = 0


(* a friendly unit attacked or skipped in this step *)
FriendlyActed ==
    \E i \in 1..Len(Friendly) :
        ~Friendly[i].has_acted /\ battle'.player_units[i].has_acted

(* the step is the handling of the timer event (only it disarms the timer) *)
TimerStep == timer_pending /\ ~timer_pending'

(* C5: the phase is VICTORY only if no enemy unit is alive, and right      *)
(* after any friendly attack or skip that leaves no enemy alive the phase  *)
(* is VICTORY.                                                             *)
C5_VictoryIffEnemiesDead ==
    /\ []((InBattle /\ battle.state = STATE_VICTORY) => ~SomeEnemyAlive)
    /\ [][(SameSession /\ FriendlyActed /\ ~SomeEnemyAlive')
             => battle'.state = STATE_VICTORY]_vars

(* the last enemy has just been killed: VICTORY with every enemy dead *)
C5_Witness ==
    /\ InBattle
    /\ battle.state = STATE_VICTORY
    /\ ~SomeEnemyAlive
    /\ Friendly[battle.selected_unit].has_acted

(* C6: the phase is DEFEAT with a friendly unit alive only after a         *)
(* forfeit, a forfeit sets DEFEAT, and an enemy phase that leaves no       *)
(* friendly unit alive ends in DEFEAT.                                     *)
C6_DefeatIffAllDeadOrForfeit ==
    /\ []((InBattle /\ battle.state = STATE_DEFEAT /\ SomeFriendlyAlive)
             => forfeited)
    /\ [][(SameSession /\ ~forfeited /\ forfeited')
             => battle'.state = STATE_DEFEAT]_vars
    /\ [][(SameSession /\ TimerStep /\ ~SomeFriendlyAlive')
             => battle'.state = STATE_DEFEAT]_vars

(* an enemy phase killed the last friendly unit of a session nobody forfeited *)
C6_Witness ==
    /\ InBattle
    /\ battle.state = STATE_DEFEAT
    /\ ~SomeFriendlyAlive
    /\ ~forfeited

(* C7: a friendly unit that has acted keeps its tile, is not selected and  *)
(* deals no damage until has_acted is reset, and has_acted is reset only   *)
(* on the transition ENEMY_PHASE -> FRIENDLY_SELECT.                       *)
C7_NoSecondAction ==
    [][SameSession =>
          /\ \A i \in 1..Len(Friendly) :
                Friendly[i].has_acted =>
                    \/ /\ battle'.player_units[i].has_acted
                       /\ Pos(battle'.player_units[i]) = Pos(Friendly[i])
                       /\ battle'.selected_unit = i => battle.selected_unit = i
                    \/ /\ ~battle'.player_units[i].has_acted
                       /\ battle.state = STATE_ENEMY_TURN
                       /\ battle'.state = STATE_PLAYER_SELECT
          /\ (\E k \in 1..Len(Enemy) : battle'.enemy_units[k].hp # Enemy[k].hp)
                => /\ battle.selected_unit # NoUnit
                   /\ ~Friendly[battle.selected_unit].has_acted]_vars

(* C8: on exit from VICTORY or DEFEAT the overworld hero's hp becomes the  *)
(* hp of the lead friendly unit and the reported outcome is true exactly   *)
(* when the phase was VICTORY.                                             *)
C8_ExitWritesBack ==
    [][(InBattle /\ scene' = SCENE_OVERWORLD) =>
          /\ Terminal(battle)
          /\ ow_player'.hp = Friendly[1].hp
          /\ reported'.hp = Friendly[1].hp
          /\ reported'.won <=> battle.state = STATE_VICTORY]_vars

(* a won session has been left with a wounded hero *)
C8_Witness ==
    /\ scene = SCENE_OVERWORLD
    /\ reported # NoReport
    /\ reported.won
    /\ ow_player.hp = reported.hp
    /\ 0 < ow_player.hp /\ ow_player.hp < ow_player.max_hp

(* C9: the reachable set computed on selection holds the selected unit's   *)
(* own tile and no tile on which another living unit stands.               *)
C9_ReachableSet ==
    (InBattle /\ battle.state = STATE_PLAYER_MOVE) =>
        /\ Pos(Friendly[battle.selected_unit]) \in battle.valid_moves
        /\ \A k \in 1..Len(AllUnits(battle)) :
              LET e == AllUnits(battle)[k]
              IN (e.pidx # battle.selected_unit /\ is_alive(e.u))
                    => Pos(e.u) \notin battle.valid_moves

(* a unit is selected with a living ally on the next tile and a living     *)
(* enemy within its movement range                                         *)
C9_Witness ==
    /\ InBattle
    /\ battle.state = STATE_PLAYER_MOVE
    /\ LET su == Friendly[battle.selected_unit]
       IN /\ \E i \in 1..Len(Friendly) :
                i # battle.selected_unit /\ is_alive(Friendly[i])
                /\ distance_to(su, Friendly[i]) = 1
          /\ \E k \in 1..Len(Enemy) :
                is_alive(Enemy[k]) /\ distance_to(su, Enemy[k]) <= su.movement


(* the scenario: the lead friendly unit, movement 4, selected on (1,3) of  *)
(* the 8x6 grid; the only other living unit is one enemy, on (6,3)         *)
C10_Scenario ==
    /\ InBattle
    /\ BATTLE_GRID_W = 8 /\ BATTLE_GRID_H = 6
    /\ battle.state = STATE_PLAYER_MOVE
    /\ Pos(Friendly[battle.selected_unit]) = <<1, 3>>
    /\ Friendly[battle.selected_unit].movement = 4
    /\ \A i \in 1..Len(Friendly) :
          is_alive(Friendly[i]) <=> i = battle.selected_unit
    /\ \E k \in 1..Len(Enemy) :
          /\ is_alive(Enemy[k]) /\ Pos(Enemy[k]) = <<6, 3>>
          /\ \A l \in 1..Len(Enemy) : is_alive(Enemy[l]) => l = k

(* C10 as stated: in the scenario the reachable set has exactly 13 tiles.  *)
C10_ThirteenTiles ==
    C10_Scenario => Cardinality(battle.valid_moves) = 13

(* C10 amended: in the scenario the reachable set has exactly 27 tiles,    *)
(* the tiles of the grid at Manhattan distance at most 4 from (1,3).       *)
C10_TwentySevenTiles ==
    C10_Scenario =>
        /\ Cardinality(battle.valid_moves) = 27
        /\ battle.valid_moves =
              { t \in (0..(BATTLE_GRID_W - 1)) \X (0..(BATTLE_GRID_H - 1)) :
                    Abs(t[1] - 1) + Abs(t[2] - 3) <= 4 }

(* the scenario's board with the reachable set computed *)
C10_Witness ==
    /\ C10_Scenario
    /\ battle.valid_moves # {}
    /\ <<battle.cursor_x, battle.cursor_y>> = <<1, 3>>


(* ---------------- the reachability solver as a function ---------------- *)
(* largest movement value for which the solver is compared *)
MaxMovement == 6

(* the reachable set of the selected unit on board b had its movement been m *)
ReachWith(b, m) ==
    _compute_valid_moves([b EXCEPT !.player_units[b.selected_unit].movement = m])

(* C11: on a fixed board and start tile the reachable set for movement m   *)
(* is a subset of the reachable set for movement m + 1, for every m >= 0.  *)
C11_MonotoneInMovement ==
    (InBattle /\ battle.state = STATE_PLAYER_MOVE) =>
        \A m \in 0..MaxMovement :
            ReachWith(battle, m) \subseteq ReachWith(battle, m + 1)

(* a selected unit with a living ally beside it whose reachable set is the *)
(* one for its own movement, is a single tile for movement 0 and grows     *)
(* with one more movement point although a living enemy is in the way      *)
C11_Witness ==
    /\ InBattle
    /\ battle.state = STATE_PLAYER_MOVE
    /\ LET su == Friendly[battle.selected_unit]
       IN /\ battle.valid_moves = ReachWith(battle, su.movement)
          /\ ReachWith(battle, 0) = {Pos(su)}
          /\ ReachWith(battle, su.movement) # ReachWith(battle, su.movement + 1)
          /\ \E i \in 1..Len(Friendly) :
                is_alive(Friendly[i]) /\ distance_to(su, Friendly[i]) = 1
          /\ \E k \in 1..Len(Enemy) :
                is_alive(Enemy[k]) /\ distance_to(su, Enemy[k]) <= MaxMovement


(* ---------------- the legal-target set ---------------- *)
(* the attack-range policy <<min_range, attack_range>> Battle.__init__     *)
(* gives the friendly unit at roster position i                            *)
RangePolicy(i) ==
    CASE i = 3 -> <<2, 3>>
      [] i = 4 -> <<1, 2>>
      [] OTHER -> <<1, 1>>

Grid == (0..(BATTLE_GRID_W - 1)) \X (0..(BATTLE_GRID_H - 1))

(* C12: the legal-target set computed after the selected unit's move is    *)
(* exactly the set of tiles of living enemies at distance d with           *)
(* min_range <= d <= attack_range; a unit with min_range 2 and             *)
(* attack_range 3 never has an enemy at distance 1 as a target and always  *)
(* has the living enemies at distance 2 or 3 as targets.                   *)
C12_TargetSet ==
    (InBattle /\ battle.state = STATE_PLAYER_ATTACK) =>
        LET su == Friendly[battle.selected_unit]
            lo == RangePolicy(battle.selected_unit)[1]
            hi == RangePolicy(battle.selected_unit)[2]
            D(k) == Abs(su.x - Enemy[k].x) + Abs(su.y - Enemy[k].y)
        IN /\ \A t \in Grid :
                t \in battle.valid_attacks <=>
                    \E k \in 1..Len(Enemy) :
                        /\ Enemy[k].hp > 0 /\ Pos(Enemy[k]) = t
                        /\ lo <= D(k) /\ D(k) <= hi
           /\ battle.valid_attacks \subseteq Grid
           /\ (lo = 2 /\ hi = 3) =>
                \A k \in 1..Len(Enemy) :
                    /\ (Enemy[k].hp > 0 /\ D(k) = 1)
                          => Pos(Enemy[k]) \notin battle.valid_attacks
                    /\ (Enemy[k].hp > 0 /\ D(k) \in {2, 3})
                          => Pos(Enemy[k]) \in battle.valid_attacks

(* the Archer (min_range 2, attack_range 3) has moved next to a living     *)
(* enemy, which is not a target, while a living enemy at distance 2 or 3   *)
(* is one                                                                  *)
C12_Witness ==
    /\ InBattle
    /\ battle.state = STATE_PLAYER_ATTACK
    /\ battle.selected_unit = 3
    /\ Pos(Friendly[3]) # battle.original_pos
    /\ \E k \in 1..Len(Enemy) :
          /\ is_alive(Enemy[k]) /\ distance_to(Friendly[3], Enemy[k]) = 1
          /\ Pos(Enemy[k]) \notin battle.valid_attacks
    /\ \E k \in 1..Len(Enemy) :
          /\ is_alive(Enemy[k]) /\ distance_to(Friendly[3], Enemy[k]) \in {2, 3}
          /\ Pos(Enemy[k]) \in battle.valid_attacks


(* ---------------- attack resolution ---------------- *)
(* _attack lines 256-266: the message the attack leaves, as its parts;     *)
(* defeated is the name in the appended " <name> defeated!" or ""          *)
AttackMessage(b, attacker, defender) ==
    LET a == b.player_units[attacker]
        d == b.enemy_units[defender]
        attack_range == GetAttr(a, "attack_range", 1)
        weapon == IF a.name = "Archer" THEN "bow"
                  ELSE IF a.name = "Mage" THEN "magic" ELSE "sword"
    IN [attacker |-> a.name,
        verb |-> IF attack_range > 1 THEN "attacks with" ELSE "hits",
        object |-> IF attack_range > 1 THEN weapon ELSE d.name,
        amount |-> a.atk,
        defeated |-> IF d.hp - a.atk <= 0 THEN d.name ELSE ""]

(* enemy_turn lines 309-312: the message of enemy k's attack on friendly t *)
EnemyAttackMessage(b, k, t) ==
    LET e == b.enemy_units[k]
        target == b.player_units[t]
    IN [attacker |-> e.name, verb |-> "hits", object |-> target.name,
        amount |-> e.atk,
        defeated |-> IF target.hp - e.atk <= 0 THEN target.name ELSE ""]

(* enemy_turn lines 294-336 step by step: for each enemy that acts, the    *)
(* board before and after its action                                       *)
RECURSIVE EnemySteps(_, _)
EnemySteps(b, k) ==
    IF k > Len(b.enemy_units) THEN <<>>
    ELSE IF ~is_alive(b.enemy_units[k]) THEN EnemySteps(b, k + 1)
    ELSE IF ~\E i \in 1..Len(b.player_units) : is_alive(b.player_units[i])
    THEN <<>>
    ELSE <<[k |-> k, before |-> b, after |-> EnemyAct(b, k)]>>
         \o EnemySteps(EnemyAct(b, k), k + 1)

(* position, atk and max_hp of every unit of both rosters *)
Fixed(b) ==
    [j \in 1..Len(AllUnits(b)) |->
        LET u == AllUnits(b)[j].u IN <<u.x, u.y, u.atk, u.max_hp>>]

Hps(units) == [j \in 1..Len(units) |-> units[j].hp]

(* a friendly attack or skip: the selected unit's has_acted becomes true *)
FriendlyActionStep ==
    /\ SameSession
    /\ battle.state = STATE_PLAYER_ATTACK
    /\ ~Friendly[battle.selected_unit].has_acted
    /\ battle'.player_units[battle.selected_unit].has_acted

(* C13, friendly attacks: the step changes at most the hp of the enemy on  *)
(* the cursor tile, a legal target, to max(0, hp - atk); then a result of  *)
(* 0 means not alive and the attack's message has the defeat part.         *)
C13_FriendlyAttack ==
    FriendlyActionStep =>
        /\ Fixed(battle') = Fixed(battle)
        /\ Hps(battle'.player_units) = Hps(Friendly)
        /\ \/ Hps(battle'.enemy_units) = Hps(Enemy)
           \/ \E k \in 1..Len(Enemy) :
                /\ Pos(Enemy[k]) = <<battle.cursor_x, battle.cursor_y>>
                /\ Pos(Enemy[k]) \in battle.valid_attacks
                /\ Enemy[k].hp > 0
                /\ Hps(battle'.enemy_units) =
                      [Hps(Enemy) EXCEPT
                          ![k] = Max(0, @ - Friendly[battle.selected_unit].atk)]
                /\ battle'.enemy_units[k].hp = 0 =>
                      /\ ~is_alive(battle'.enemy_units[k])
                      /\ AttackMessage(battle, battle.selected_unit, k).defeated
                            = Enemy[k].name
                /\ battle'.enemy_units[k].hp > 0 =>
                      AttackMessage(battle, battle.selected_unit, k).defeated = ""

(* C13, enemy attacks: in the enemy phase run by a timer step, an enemy's  *)
(* action that changes any hp changes the hp of one friendly unit only, to *)
(* max(0, hp - atk), and nothing else; the phase's last board is the       *)
(* step's result.                                                          *)
C13_EnemyAttack ==
    (SameSession /\ TimerStep) =>
        LET steps == EnemySteps(battle, 1)
            last == IF steps = <<>> THEN battle ELSE steps[Len(steps)].after
        IN /\ Hps(battle'.player_units) = Hps(last.player_units)
           /\ Hps(battle'.enemy_units) = Hps(last.enemy_units)
           /\ Fixed(battle') = Fixed(last)
           /\ \A n \in 1..Len(steps) :
                LET b0 == steps[n].before
                    b1 == steps[n].after
                    e == b0.enemy_units[steps[n].k]
                IN (Hps(b1.player_units) # Hps(b0.player_units)
                        \/ Hps(b1.enemy_units) # Hps(b0.enemy_units)) =>
                     /\ Fixed(b1) = Fixed(b0)
                     /\ Hps(b1.enemy_units) = Hps(b0.enemy_units)
                     /\ \E t \in 1..Len(b0.player_units) :
                          /\ b0.player_units[t].hp > 0
                          /\ Hps(b1.player_units) =
                                [Hps(b0.player_units) EXCEPT
                                    ![t] = Max(0, @ - e.atk)]
                          /\ b1.player_units[t].hp = 0 =>
                                /\ ~is_alive(b1.player_units[t])
                                /\ EnemyAttackMessage(b0, steps[n].k, t).defeated
                                      = b0.player_units[t].name
                          /\ b1.player_units[t].hp > 0 =>
                                EnemyAttackMessage(b0, steps[n].k, t).defeated = ""

Core(b) ==
    [state |-> b.state, selected_unit |-> b.selected_unit,
     cursor |-> <<b.cursor_x, b.cursor_y>>,
     units |-> [j \in 1..Len(AllUnits(b)) |->
                  LET u == AllUnits(b)[j].u IN <<u.x, u.y, u.hp, u.has_acted>>]]

Cursor == <<battle.cursor_x, battle.cursor_y>>

(* C14: a confirm in FRIENDLY_SELECT on a tile without a living un-acted   *)
(* friendly unit, in FRIENDLY_MOVE on a tile outside the reachable set and *)
(* in FRIENDLY_ATTACK on a tile that is not a legal target leaves phase,   *)
(* selected unit, cursor and every unit's position, hp and acted flag      *)
(* unchanged (and arms no timer).                                          *)
C14_IllegalConfirm ==
    InBattle =>
        /\ (/\ battle.state = STATE_PLAYER_SELECT
            /\ ~\E i \in 1..Len(Friendly) :
                  /\ Friendly[i].hp > 0 /\ ~Friendly[i].has_acted
                  /\ Pos(Friendly[i]) = Cursor)
              => Core(HandleSelect(battle)) = Core(battle)
        /\ (battle.state = STATE_PLAYER_MOVE /\ Cursor \notin battle.valid_moves)
              => Core(HandleMove(battle)) = Core(battle)
        /\ (battle.state = STATE_PLAYER_ATTACK /\ Cursor \notin battle.valid_attacks)
              => /\ Core(HandleAttack(battle).b) = Core(battle)
                 /\ ~HandleAttack(battle).set_timer

(* the selected unit has been moved and the cursor is on a living enemy    *)
(* that is out of its range, after input outside the scripted opening      *)
C14_Witness ==
    /\ InBattle
    /\ battle.state = STATE_PLAYER_ATTACK
    /\ free > 0
    /\ Pos(Friendly[battle.selected_unit]) # battle.original_pos
    /\ Cursor \notin battle.valid_attacks
    /\ Cursor \notin battle.valid_moves
    /\ _enemy_at(battle, battle.cursor_x, battle.cursor_y) # 0


(* ---------------- cancel ---------------- *)
Bound == battle.state \in {STATE_PLAYER_MOVE, STATE_PLAYER_ATTACK}

(* both rosters of b with the friendly unit i put on tile t *)
RostersWith(b, i, t) ==
    <<[b.player_units EXCEPT ![i].x = t[1], ![i].y = t[2]], b.enemy_units>>

(* C15: cancel undoes a tentative move.  (1) While a unit is selected and  *)
(* not yet moved the snapshot is its tile and it has not acted; (2) until  *)
(* the phase leaves FRIENDLY_MOVE / FRIENDLY_ATTACK the selection and the  *)
(* snapshot stay and nothing on the board changes but the selected unit's  *)
(* position; (3) a cancel there puts the unit back on the snapshot tile,   *)
(* sets FRIENDLY_SELECT with no unit bound and changes nothing else, so    *)
(* the board is the board before the selection.                            *)
C15_CancelRestores ==
    /\ []((InBattle /\ battle.state = STATE_PLAYER_MOVE) =>
            /\ battle.selected_unit # NoUnit
            /\ Pos(Friendly[battle.selected_unit]) = battle.original_pos
            /\ ~Friendly[battle.selected_unit].has_acted)
    /\ [][(SameSession /\ Bound /\ Bound') =>
            /\ battle'.selected_unit = battle.selected_unit
            /\ battle'.original_pos = battle.original_pos
            /\ RostersWith(battle', battle.selected_unit, battle.original_pos)
                 = RostersWith(battle, battle.selected_unit, battle.original_pos)]_vars
    /\ []((InBattle /\ Bound) =>
            LET c == HandleEscape(battle)
                i == battle.selected_unit
            IN /\ c.state = STATE_PLAYER_SELECT
               /\ c.selected_unit = NoUnit
               /\ Pos(c.player_units[i]) = battle.original_pos
               /\ ~c.player_units[i].has_acted
               /\ <<c.player_units, c.enemy_units>>
                     = RostersWith(battle, i, battle.original_pos))

(* a move has been cancelled from FRIENDLY_ATTACK: no unit is bound, the   *)
(* target set of the cancelled move is still there and an un-acted unit    *)
(* stands on the snapshot tile                                             *)
C15_Witness ==
    /\ InBattle
    /\ battle.state = STATE_PLAYER_SELECT
    /\ battle.selected_unit = NoUnit
    /\ battle.valid_attacks # {}
    /\ \E i \in 1..Len(Friendly) :
          /\ Pos(Friendly[i]) = battle.original_pos
          /\ is_alive(Friendly[i]) /\ ~Friendly[i].has_acted


(* ---------------- forfeit ---------------- *)
(* C16: in a non-terminal session the escape event forfeits exactly when   *)
(* no unit is bound: with no selected unit it sets the phase to DEFEAT,    *)
(* with a unit bound it only cancels and never sets the phase to DEFEAT.   *)
C16_ForfeitIffUnbound ==
    (InBattle /\ ~Terminal(battle)) =>
        LET c == HandleEscape(battle)
        IN /\ battle.selected_unit = NoUnit => c.state = STATE_DEFEAT
           /\ battle.selected_unit # NoUnit =>
                 /\ c.state = STATE_PLAYER_SELECT
                 /\ c.selected_unit = NoUnit

(* a unit is bound outside FRIENDLY_MOVE / FRIENDLY_ATTACK in a            *)
(* non-terminal phase                                                      *)
StaleBound ==
    /\ InBattle /\ ~Terminal(battle) /\ ~Bound
    /\ battle.selected_unit # NoUnit

(* only the timer step leaves a unit bound outside the two phases *)
StaleOnlyByTimer ==
    [][(SameSession /\ ~StaleBound /\ StaleBound') => TimerStep]_vars


(* ---------------- grid bounds ---------------- *)
(* C17: the cursor and the position of every unit of both rosters lie      *)
(* inside the grid, and so does every tile of the reachable set and of the *)
(* legal-target set.                                                       *)
C17_InsideGrid ==
    InBattle =>
        /\ 0 <= battle.cursor_x /\ battle.cursor_x < BATTLE_GRID_W
        /\ 0 <= battle.cursor_y /\ battle.cursor_y < BATTLE_GRID_H
        /\ \A j \in 1..Len(AllUnits(battle)) :
              LET u == AllUnits(battle)[j].u
              IN 0 <= u.x /\ u.x < BATTLE_GRID_W /\ 0 <= u.y /\ u.y < BATTLE_GRID_H
        /\ \A t \in battle.valid_moves \cup battle.valid_attacks :
              0 <= t[1] /\ t[1] < BATTLE_GRID_W /\ 0 <= t[2] /\ t[2] < BATTLE_GRID_H

(* the cursor is in a corner of the grid, a unit stands on the grid's edge *)
(* after an enemy phase has moved the enemies, and the reachable set holds *)
(* a tile of the top row and one of the bottom row                         *)
C17_Witness ==
    /\ InBattle
    /\ Cursor \in {<<0, 0>>, <<0, BATTLE_GRID_H - 1>>,
                   <<BATTLE_GRID_W - 1, 0>>, <<BATTLE_GRID_W - 1, BATTLE_GRID_H - 1>>}
    /\ \E i \in 1..Len(Friendly) : is_alive(Friendly[i]) /\ Friendly[i].x = 0
    /\ \E k \in 1..Len(Enemy) :
          is_alive(Enemy[k]) /\ Pos(Enemy[k]) # Pos(SessionStart.enemy_units[k])
    /\ \E t \in battle.valid_moves : t[2] = 0
    /\ \E t \in battle.valid_moves : t[2] = BATTLE_GRID_H - 1


(* ---------------- the overworld during a session ---------------- *)
(* C18: while a session is running no step changes the hp or position (or  *)
(* any other field) of an overworld unit; the step that exits the session  *)
(* changes only the hero's hp and, on victory, the hp of one overworld     *)
(* enemy.                                                                  *)
C18_OverworldUntouched ==
    [][/\ SameSession => (ow_player' = ow_player /\ ow_enemies' = ow_enemies)
       /\ (InBattle /\ scene' = SCENE_OVERWORLD) =>
            /\ [ow_player' EXCEPT !.hp = ow_player.hp] = ow_player
            /\ \A j \in 1..Len(ow_enemies) :
                  [ow_enemies'[j] EXCEPT !.hp = ow_enemies[j].hp] = ow_enemies[j]
            /\ Len(ow_enemies') = Len(ow_enemies)
            /\ Cardinality({ j \in 1..Len(ow_enemies) :
                               ow_enemies'[j].hp # ow_enemies[j].hp })
                  <= IF battle.state = STATE_VICTORY THEN 1 ELSE 0]_vars

(* a second session is running in which the lead unit has been moved and   *)
(* wounded, after the exit of a won session changed the hero's hp and one  *)
(* overworld enemy's hp                                                    *)
C18_Witness ==
    /\ InBattle
    /\ reported # NoReport
    /\ reported.won
    /\ ow_player.hp = reported.hp /\ ow_player.hp < ow_player.max_hp
    /\ Cardinality({ j \in 1..Len(ow_enemies) : ow_enemies[j].hp = 0 }) = 1
    /\ Friendly[1].hp < ow_player.hp
    /\ Pos(Friendly[1]) # Pos(SessionStart.player_units[1])


(* ---------------- the reachable set by its definition ---------------- *)
(* the tiles next to t in the four cardinal directions *)
Nbrs(t) == { <<t[1] + 1, t[2]>>, <<t[1] - 1, t[2]>>,
             <<t[1], t[2] + 1>>, <<t[1], t[2] - 1>> }

(* a living enemy of board b, or with allies_block any living unit other   *)
(* than the selected one, stands on n                                      *)
Held(b, n, allies_block) ==
    \/ \E k \in 1..Len(b.enemy_units) :
          b.enemy_units[k].hp > 0 /\ Pos(b.enemy_units[k]) = n
    \/ /\ allies_block
       /\ \E i \in 1..Len(b.player_units) :
             /\ i # b.selected_unit
             /\ b.player_units[i].hp > 0 /\ Pos(b.player_units[i]) = n

(* the tiles joined to a tile of S by a path of at most k steps that stays *)
(* in the grid and enters no held tile                                     *)
RECURSIVE Within(_, _, _, _)
Within(b, S, k, allies_block) ==
    IF k = 0 THEN S
    ELSE Within(b,
                S \cup { n \in UNION { Nbrs(t) : t \in S } :
                            n \in Grid /\ ~Held(b, n, allies_block) },
                k - 1, allies_block)

ReachRef(b, allies_block) ==
    LET su == b.player_units[b.selected_unit]
    IN { t \in Within(b, {Pos(su)}, su.movement, allies_block) :
            ~Held(b, t, TRUE) }

(* C19: the reachable set computed for the selected unit is the set of     *)
(* tiles t with a path of at most `movement` four-neighbour steps from the *)
(* unit's tile to t that stays in the grid and enters no tile of a living  *)
(* enemy, and with no living unit other than the selected one on t.        *)
C19_ReachableIsReference ==
    (InBattle /\ battle.state = STATE_PLAYER_MOVE) =>
        battle.valid_moves = ReachRef(battle, FALSE)

(* a reachable set that holds a tile reached only through a living ally's  *)
(* tile and the tile of a dead unit, while a living enemy stands within    *)
(* the unit's movement                                                     *)
C19_Witness ==
    /\ InBattle
    /\ battle.state = STATE_PLAYER_MOVE
    /\ ReachRef(battle, TRUE) # battle.valid_moves
    /\ \E j \in 1..Len(AllUnits(battle)) :
          LET u == AllUnits(battle)[j].u
          IN u.hp = 0 /\ u.max_hp > 0 /\ Pos(u) \in battle.valid_moves
    /\ \E k \in 1..Len(Enemy) :
          /\ is_alive(Enemy[k])
          /\ distance_to(Friendly[battle.selected_unit], Enemy[k])
                <= Friendly[battle.selected_unit].movement


(* ---------------- the hand-over to the enemy phase ---------------- *)
(* every friendly unit of session b is dead or has acted *)
AllActedOrDead(b) ==
    \A i \in 1..Len(b.player_units) :
        b.player_units[i].has_acted \/ ~is_alive(b.player_units[i])

(* every friendly unit of b other than the selected one is dead or has    *)
(* acted: the selected unit's action is the last of the round              *)
LastToAct(b) ==
    \A i \in 1..Len(b.player_units) :
        i # b.selected_unit =>
            (b.player_units[i].has_acted \/ ~is_alive(b.player_units[i]))

(* the outcome r of an attack or skip made in session b hands over as the  *)
(* round requires, when it leaves some enemy alive                         *)
HandsOver(b, r) ==
    (\E k \in 1..Len(r.b.enemy_units) : is_alive(r.b.enemy_units[k])) =>
        IF LastToAct(b)
        THEN /\ AllActedOrDead(r.b)
             /\ r.b.state = STATE_ENEMY_TURN
             /\ r.b.selected_unit = NoUnit
             /\ r.set_timer
             /\ \A k \in 1..Len(b.enemy_units) :
                   Pos(r.b.enemy_units[k]) = Pos(b.enemy_units[k])
             /\ Hps(r.b.player_units) = Hps(b.player_units)
        ELSE /\ ~AllActedOrDead(r.b)
             /\ r.b.state = STATE_PLAYER_SELECT
             /\ r.b.selected_unit = NoUnit
             /\ ~r.set_timer

(* C20: after every friendly attack or skip that leaves some enemy alive:  *)
(* if every friendly unit is dead or has acted the phase is ENEMY_TURN     *)
(* with no unit selected, the timer is armed, and the enemy AI has not run *)
(* in that step (no enemy position and no friendly hp changed); otherwise  *)
(* the phase is PLAYER_SELECT with no unit selected.  Stated on the        *)
(* outcome of a skip and of an attack on the cursor tile in every          *)
(* PLAYER_ATTACK state, and on every step in which a unit's action ends.   *)
C20_HandOver ==
    /\ [](InBattle /\ battle.state = STATE_PLAYER_ATTACK =>
            /\ HandsOver(battle, HandleSkip(battle))
            /\ <<battle.cursor_x, battle.cursor_y>> \in battle.valid_attacks =>
                  /\ HandleAttack(battle).b # battle
                  /\ HandsOver(battle, HandleAttack(battle)))
    /\ [][(FriendlyActionStep /\ SomeEnemyAlive') =>
            IF AllActedOrDead(battle')
            THEN /\ battle'.state = STATE_ENEMY_TURN
                 /\ battle'.selected_unit = NoUnit
                 /\ timer_pending'
                 /\ \A k \in 1..Len(Enemy) :
                       Pos(battle'.enemy_units[k]) = Pos(Enemy[k])
                 /\ Hps(battle'.player_units) = Hps(Friendly)
            ELSE /\ battle'.state = STATE_PLAYER_SELECT
                 /\ battle'.selected_unit = NoUnit]_vars

(* the enemy phase is pending after the last friendly action of a round in *)
(* which one friendly unit is dead and an enemy was wounded                *)
C20_Witness ==
    /\ InBattle
    /\ battle.state = STATE_ENEMY_TURN
    /\ timer_pending
    /\ battle.selected_unit = NoUnit
    /\ AllActedOrDead(battle)
    /\ \E i \in 1..Len(Friendly) : ~is_alive(Friendly[i])
    /\ \E i \in 1..Len(Friendly) : is_alive(Friendly[i]) /\ Friendly[i].has_acted
    /\ \E k \in 1..Len(Enemy) : 0 < Enemy[k].hp /\ Enemy[k].hp < Enemy[k].max_hp


(* ---------------- the enemy phase, enemy by enemy ---------------- *)
(* the actions the pending timer event would run on the current session *)
PendingSteps == IF InBattle /\ timer_pending THEN EnemySteps(battle, 1) ELSE <<>>

(* friendly t of board b is alive, no living friendly unit is nearer to e, *)
(* and none of equal distance comes before t in the roster                 *)
NearestFirst(b, e, t) ==
    /\ t \in 1..Len(b.player_units)
    /\ is_alive(b.player_units[t])
    /\ \A j \in 1..Len(b.player_units) :
          is_alive(b.player_units[j]) =>
             \/ distance_to(e, b.player_units[t]) < distance_to(e, b.player_units[j])
             \/ /\ distance_to(e, b.player_units[t]) = distance_to(e, b.player_units[j])
                /\ t <= j

(* C21: in the enemy phase each acting enemy targets the living friendly   *)
(* unit of minimum Manhattan distance at the moment it acts, the first in  *)
(* the friendly roster among equals; the unit it damages is that target,   *)
(* and a dead friendly unit is never targeted.                             *)
C21_TargetChoice ==
    LET steps == PendingSteps
    IN \A n \in 1..Len(steps) :
        LET b0 == steps[n].before
            b1 == steps[n].after
            e == b0.enemy_units[steps[n].k]
        IN /\ NearestFirst(b0, e, Target(b0, e))
           /\ \A j \in 1..Len(b0.player_units) :
                 b1.player_units[j].hp # b0.player_units[j].hp =>
                    NearestFirst(b0, e, j)

(* an enemy about to act has two living friendly units at its minimum      *)
(* distance and a dead friendly unit strictly nearer, in a phase in which  *)
(* some enemy attacks                                                      *)
C21_Witness ==
    LET steps == PendingSteps
    IN /\ \E n \in 1..Len(steps) :
            LET b0 == steps[n].before
                e == b0.enemy_units[steps[n].k]
                t == Target(b0, e)
            IN /\ \E j \in 1..Len(b0.player_units) :
                     /\ j # t /\ is_alive(b0.player_units[j])
                     /\ distance_to(e, b0.player_units[j])
                           = distance_to(e, b0.player_units[t])
               /\ \E j \in 1..Len(b0.player_units) :
                     /\ ~is_alive(b0.player_units[j])
                     /\ distance_to(e, b0.player_units[j])
                           < distance_to(e, b0.player_units[t])
       /\ \E n \in 1..Len(steps) :
            Hps(steps[n].after.player_units) # Hps(steps[n].before.player_units)


(* positions of a roster *)
Poss(units) == [j \in 1..Len(units) |-> Pos(units[j])]

(* tile q is tile p or one of its eight neighbours: one move of lines 318-336 *)
OneMove(p, q) == Abs(q[1] - p[1]) <= 1 /\ Abs(q[2] - p[2]) <= 1

(* C22: in one enemy phase each living enemy performs at most one action:  *)
(* it attacks its target exactly when its Manhattan distance to the target *)
(* is 1, and then no position changes; otherwise it deals no damage and    *)
(* makes at most one move; dead enemies neither attack nor move.           *)
C22_OneActionEach ==
    /\ [](LET steps == PendingSteps
          IN \A n \in 1..Len(steps) :
               LET b0 == steps[n].before
                   b1 == steps[n].after
                   k == steps[n].k
                   e == b0.enemy_units[k]
                   t == Target(b0, e)
               IN /\ is_alive(e)
                  /\ \A m \in 1..Len(steps) : steps[m].k = k => m = n
                  /\ Hps(b1.enemy_units) = Hps(b0.enemy_units)
                  /\ Poss(b1.player_units) = Poss(b0.player_units)
                  /\ IF distance_to(e, b0.player_units[t]) = 1
                     THEN /\ Poss(b1.enemy_units) = Poss(b0.enemy_units)
                          /\ b1.player_units[t].hp < b0.player_units[t].hp
                          /\ \A j \in 1..Len(b0.player_units) :
                                j # t => b1.player_units[j].hp = b0.player_units[j].hp
                     ELSE /\ Hps(b1.player_units) = Hps(b0.player_units)
                          /\ \A j \in 1..Len(b0.enemy_units) :
                                j # k => Pos(b1.enemy_units[j]) = Pos(b0.enemy_units[j])
                          /\ OneMove(Pos(e), Pos(b1.enemy_units[k])))
    /\ [][(SameSession /\ TimerStep) =>
            /\ \A k \in 1..Len(Enemy) :
                  /\ OneMove(Pos(Enemy[k]), Pos(battle'.enemy_units[k]))
                  /\ ~is_alive(Enemy[k]) =>
                        Pos(battle'.enemy_units[k]) = Pos(Enemy[k])
            /\ \A i \in 1..Len(Friendly) :
                  battle'.player_units[i].hp < Friendly[i].hp =>
                     \E k \in 1..Len(Enemy) :
                        /\ is_alive(Enemy[k])
                        /\ Pos(battle'.enemy_units[k]) = Pos(Enemy[k])
                        /\ distance_to(Enemy[k], Friendly[i]) = 1]_vars

(* a pending enemy phase in which one enemy attacks and another moves *)
C22_Witness ==
    LET steps == PendingSteps
    IN /\ \E n \in 1..Len(steps) :
            Hps(steps[n].after.player_units) # Hps(steps[n].before.player_units)
       /\ \E n \in 1..Len(steps) :
            Poss(steps[n].after.enemy_units) # Poss(steps[n].before.enemy_units)


(* tile c of board b is in the grid and no living unit stands on it *)
FreeTile(b, c) ==
    /\ c \in Grid
    /\ \A j \in 1..Len(AllUnits(b)) :
          LET u == AllUnits(b)[j].u IN is_alive(u) => Pos(u) # c

(* the cardinal neighbours of tile p in the order right, left, down, up *)
Cardinals(p) == << <<p[1] + 1, p[2]>>, <<p[1] - 1, p[2]>>,
                   <<p[1], p[2] + 1>>, <<p[1], p[2] - 1>> >>

(* the three preferred candidates of an enemy on p towards a target on q *)
Preferred(p, q) ==
    { <<p[1] + Sign(q[1] - p[1]), p[2] + Sign(q[2] - p[2])>>,
      <<p[1] + Sign(q[1] - p[1]), p[2]>>,
      <<p[1], p[2] + Sign(q[2] - p[2])>> }

(* C23: an enemy that is not adjacent to its target ends its action on its *)
(* original tile only if all four cardinal neighbours of that tile are out *)
(* of bounds or occupied by a living unit; when every preferred candidate  *)
(* is blocked but some cardinal neighbour is in bounds and free, it moves  *)
(* onto the first free one in the order right, left, down, up.             *)
C23_FallbackMove ==
    LET steps == PendingSteps
    IN \A n \in 1..Len(steps) :
        LET b0 == steps[n].before
            k == steps[n].k
            e == b0.enemy_units[k]
            target == b0.player_units[Target(b0, e)]
            p1 == Pos(steps[n].after.enemy_units[k])
            card == Cardinals(Pos(e))
        IN distance_to(e, target) # 1 =>
             /\ p1 = Pos(e) => \A d \in 1..4 : ~FreeTile(b0, card[d])
             /\ ((\A c \in Preferred(Pos(e), Pos(target)) : ~FreeTile(b0, c))
                   /\ (\E d \in 1..4 : FreeTile(b0, card[d]))) =>
                   \E d \in 1..4 :
                      /\ FreeTile(b0, card[d])
                      /\ \A d2 \in 1..(d - 1) : ~FreeTile(b0, card[d2])
                      /\ p1 = card[d]

(* an enemy whose preferred candidates are all blocked moves onto a free   *)
(* cardinal neighbour that is farther from its target                      *)
C23_Witness ==
    LET steps == PendingSteps
    IN \E n \in 1..Len(steps) :
        LET b0 == steps[n].before
            k == steps[n].k
            e == b0.enemy_units[k]
            target == b0.player_units[Target(b0, e)]
            e1 == steps[n].after.enemy_units[k]
        IN /\ distance_to(e, target) # 1
           /\ \A c \in Preferred(Pos(e), Pos(target)) : ~FreeTile(b0, c)
           /\ Pos(e1) # Pos(e)
           /\ distance_to(e1, target) > distance_to(e, target)


(* C24: within one enemy phase the enemies act strictly in roster order    *)
(* and the k-th enemy acts on the positions and hp left by enemies 1..k-1  *)
(* of that phase; hence two enemies never move onto the same tile in one   *)
(* phase and an enemy never attacks a friendly unit that an earlier enemy  *)
(* of that phase has already killed.                                       *)
C24_SequentialPhase ==
    [][(SameSession /\ TimerStep) =>
         LET steps == EnemySteps(battle, 1)
             last == IF steps = <<>> THEN battle ELSE steps[Len(steps)].after
         IN /\ Hps(battle'.player_units) = Hps(last.player_units)
            /\ Poss(battle'.enemy_units) = Poss(last.enemy_units)
            /\ steps # <<>> => steps[1].before = battle
            /\ \A n \in 1..Len(steps), m \in 1..Len(steps) :
                  n < m =>
                    /\ steps[n].k < steps[m].k
                    /\ m = n + 1 => steps[m].before = steps[n].after
                    /\ \E i \in 1..Len(Friendly) :
                          is_alive(steps[n].after.player_units[i])
                    /\ \A i \in 1..Len(Friendly) :
                          ~is_alive(steps[n].after.player_units[i]) =>
                             Target(steps[m].before,
                                    steps[m].before.enemy_units[steps[m].k]) # i
            /\ \A k \in 1..Len(Enemy), j \in 1..Len(Enemy) :
                  (/\ k # j
                   /\ Pos(battle'.enemy_units[k]) # Pos(Enemy[k])
                   /\ Pos(battle'.enemy_units[j]) # Pos(Enemy[j])) =>
                     Pos(battle'.enemy_units[k]) # Pos(battle'.enemy_units[j])]_vars

(* a pending enemy phase in which a later enemy moves to another tile than *)
(* it would on the board of the start of the phase, and an earlier enemy   *)
(* kills a friendly unit                                                   *)
C24_Witness ==
    LET steps == PendingSteps
    IN /\ \E m \in 1..Len(steps) :
            Pos(steps[m].after.enemy_units[steps[m].k])
               # Pos(EnemyAct(battle, steps[m].k).enemy_units[steps[m].k])
       /\ \E n \in 1..(Len(steps) - 1), i \in 1..Len(Friendly) :
            /\ is_alive(steps[n].before.player_units[i])
            /\ ~is_alive(steps[n].after.player_units[i])


(* ---------------- defeated units ---------------- *)
(* roster `units` with its dead units taken off the grid *)
OffGrid(units) ==
    [j \in 1..Len(units) |->
        IF is_alive(units[j]) THEN units[j]
        ELSE [units[j] EXCEPT !.x = -10 * j, !.y = -10]]

(* board b with the dead units of both rosters taken off the grid *)
WithoutDead(b) ==
    [b EXCEPT !.player_units = OffGrid(b.player_units),
              !.enemy_units = OffGrid(b.enemy_units)]

(* hp of the friendly roster, hp and tiles of the living enemies *)
PhaseOutcome(b0, b1) ==
    <<Hps(b1.player_units), Hps(b1.enemy_units), b1.state,
      [k \in 1..Len(b1.enemy_units) |->
          IF is_alive(b0.enemy_units[k]) THEN Pos(b1.enemy_units[k]) ELSE NoPos]>>

(* C25: a unit whose hp has reached 0 stays in its roster (both roster     *)
(* lengths are constant for the session) but is ignored by every query:    *)
(* it cannot be selected, it is no legal attack target and no AI target,   *)
(* it does not act in the enemy phase, and its tile neither blocks         *)
(* traversal nor is excluded from reachable sets or from enemy move        *)
(* candidates.  Every query gives the same answer on the board with the    *)
(* dead units taken off the grid.                                          *)
C25_DeadIgnored ==
    InBattle =>
      /\ Len(Friendly) = Len(SessionStart.player_units)
      /\ Len(Enemy) = Len(SessionStart.enemy_units)
      /\ (\E j \in 1..Len(AllUnits(battle)) : ~is_alive(AllUnits(battle)[j].u)) =>
            LET s == WithoutDead(battle)
            IN
               /\ \A t \in { Pos(AllUnits(battle)[j].u) : j \in 1..Len(AllUnits(battle)) } :
                     /\ _get_player_unit_at(battle, t[1], t[2])
                           = _get_player_unit_at(s, t[1], t[2])
                     /\ _enemy_at(battle, t[1], t[2]) = _enemy_at(s, t[1], t[2])
               /\ \A i \in 1..Len(Friendly) :
                     ~is_alive(Friendly[i]) =>
                        /\ _get_player_unit_at(battle, Friendly[i].x, Friendly[i].y) # i
                        /\ battle.state = STATE_PLAYER_SELECT =>
                              HandleSelect([battle EXCEPT !.cursor_x = Friendly[i].x,
                                                          !.cursor_y = Friendly[i].y])
                                 .selected_unit # i
               /\ \A k \in 1..Len(Enemy) :
                     ~is_alive(Enemy[k]) => _enemy_at(battle, Enemy[k].x, Enemy[k].y) # k
               /\ battle.state = STATE_PLAYER_MOVE =>
                     /\ battle.valid_moves = _compute_valid_moves(s)
                     /\ is_alive(Friendly[battle.selected_unit])
               /\ battle.state = STATE_PLAYER_ATTACK =>
                     /\ battle.valid_attacks = _compute_valid_attacks(s)
                     /\ is_alive(Friendly[battle.selected_unit])
                     /\ \A c \in battle.valid_attacks :
                           LET k == _enemy_at(battle, c[1], c[2])
                           IN /\ k # 0
                              /\ is_alive(Enemy[k])
                              /\ HandleAttack([battle EXCEPT !.cursor_x = c[1],
                                                             !.cursor_y = c[2]])
                                    .b.enemy_units[k].hp < Enemy[k].hp
               /\ timer_pending =>
                     /\ PhaseOutcome(battle, enemy_turn(battle))
                           = PhaseOutcome(battle, enemy_turn(s))
                     /\ \A k \in 1..Len(Enemy) :
                           ~is_alive(Enemy[k]) =>
                              enemy_turn(battle).enemy_units[k] = Enemy[k]

(* a living unit stands on the tile of a dead unit *)
C25_Witness ==
    /\ InBattle
    /\ \E i \in 1..Len(AllUnits(battle)), j \in 1..Len(AllUnits(battle)) :
          /\ ~is_alive(AllUnits(battle)[i].u)
          /\ is_alive(AllUnits(battle)[j].u)
          /\ Pos(AllUnits(battle)[i].u) = Pos(AllUnits(battle)[j].u)


(* ---------------- the cached sets ---------------- *)
(* C26: the cached reachable-tile set is non-empty only while the phase is *)
(* PLAYER_MOVE and the cached legal-target set is non-empty only while the *)
(* phase is PLAYER_ATTACK; in every other phase both sets are empty.       *)
C26_CachesCleared ==
    InBattle =>
        /\ battle.valid_moves # {} => battle.state = STATE_PLAYER_MOVE
        /\ battle.valid_attacks # {} => battle.state = STATE_PLAYER_ATTACK

(* the legal-target set is empty whenever _after_player_action has run     *)
(* last: in ENEMY_TURN, and in PLAYER_SELECT with no unit bound unless the *)
(* phase was reached by a cancel                                           *)
TargetsClearedAfterAction ==
    [][FriendlyActionStep /\ SomeEnemyAlive' => battle'.valid_attacks = {}]_vars


(* ---------------- the deferred timer callback ---------------- *)
(* C27: the enemy AI step (enemy_turn) executes only when the phase of the *)
(* current session is ENEMY_TURN: the timer callback armed on entering     *)
(* ENEMY_TURN never runs the AI in another phase, neither after a forfeit  *)
(* pressed during the delay nor on a new session started before the       *)
(* pending timer fires.                                                    *)
C27_AiOnlyInEnemyPhase ==
    [][(InBattle /\ TimerStep) => battle.state = STATE_ENEMY_TURN]_vars


(* ---------------- the bound unit ---------------- *)
(* C28: a friendly unit is bound as the selected unit if and only if the   *)
(* phase is PLAYER_MOVE or PLAYER_ATTACK; in those phases the bound unit   *)
(* is alive and has not acted, and in every other phase no unit is bound.  *)
C28_BoundIffMoveOrAttack ==
    InBattle =>
        /\ battle.selected_unit # NoUnit <=> Bound
        /\ Bound =>
              /\ is_alive(Friendly[battle.selected_unit])
              /\ ~Friendly[battle.selected_unit].has_acted

(* the half that holds: in PLAYER_MOVE and PLAYER_ATTACK a unit is bound,  *)
(* alive and has not acted                                                 *)
BoundInMoveAndAttack ==
    (InBattle /\ Bound) =>
        /\ battle.selected_unit # NoUnit
        /\ is_alive(Friendly[battle.selected_unit])
        /\ ~Friendly[battle.selected_unit].has_acted


(* ---------------- the friendly round cannot get stuck ---------------- *)
(* friendly unit i of the session can be selected: it is alive, has not    *)
(* acted, and it is the unit the select confirm finds on its tile          *)
Selectable(i) ==
    /\ is_alive(Friendly[i])
    /\ ~Friendly[i].has_acted
    /\ _get_player_unit_at(battle, Friendly[i].x, Friendly[i].y) = i

(* C29: whenever the phase is PLAYER_SELECT at least one friendly unit is  *)
(* alive and has not yet acted, so the player can always select a unit; at *)
(* session start, after every attack, skip and cancel, and after every     *)
(* enemy phase.                                                            *)
C29_SelectHasUnit ==
    (InBattle /\ battle.state = STATE_PLAYER_SELECT) =>
        \E i \in 1..Len(Friendly) : Selectable(i)

(* PLAYER_SELECT with one friendly unit dead, others that have acted and   *)
(* exactly one left to select                                              *)
C29_Witness ==
    /\ InBattle
    /\ battle.state = STATE_PLAYER_SELECT
    /\ \E i \in 1..Len(Friendly) : ~is_alive(Friendly[i])
    /\ \E i \in 1..Len(Friendly) : is_alive(Friendly[i]) /\ Friendly[i].has_acted
    /\ Cardinality({ i \in 1..Len(Friendly) : Selectable(i) }) = 1


(* ---------------- the start of a session ---------------- *)
(* C30: every battle session starts with its lead friendly unit alive: the *)
(* overworld never starts a session while the hero's carried-over hp is 0. *)
C30_LeadAliveAtStart ==
    [][(scene = SCENE_OVERWORLD /\ scene' = SCENE_BATTLE) =>
          /\ is_alive(ow_player)
          /\ is_alive(battle'.player_units[1])]_vars

=============================================================================
